---- MODULE Spec2Model ----
(***************************************************************************)
(* Command execution security gateway of kimi-agent-tutorial:              *)
(*   src/shell_executor.py        ShellSecurity, ShellExecutor             *)
(*   src/llm_security_analyzer.py LLMSecurityAnalyzer,                      *)
(*                                HybridSecurityAnalyzer,                   *)
(*                                TraditionalSecurity                       *)
(* A behaviour of Spec is one call of ShellExecutor.execute_command.        *)
(* Python strings are sequences of one-character strings.                   *)
(***************************************************************************)
EXTENDS Integers, Sequences, FiniteSets, TLC

(***************************************************************************)
(* Strings                                                                 *)
(***************************************************************************)

\* str.lower() on one character (re.IGNORECASE folds case the same way)
UpperToLower ==
    [c \in {"A","B","C","D","E","F","G","H","I","J","K","L","M",
            "N","O","P","Q","R","S","T","U","V","W","X","Y","Z"} |->
       CASE c = "A" -> "a" [] c = "B" -> "b" [] c = "C" -> "c" [] c = "D" -> "d"
         [] c = "E" -> "e" [] c = "F" -> "f" [] c = "G" -> "g" [] c = "H" -> "h"
         [] c = "I" -> "i" [] c = "J" -> "j" [] c = "K" -> "k" [] c = "L" -> "l"
         [] c = "M" -> "m" [] c = "N" -> "n" [] c = "O" -> "o" [] c = "P" -> "p"
         [] c = "Q" -> "q" [] c = "R" -> "r" [] c = "S" -> "s" [] c = "T" -> "t"
         [] c = "U" -> "u" [] c = "V" -> "v" [] c = "W" -> "w" [] c = "X" -> "x"
         [] c = "Y" -> "y" [] c = "Z" -> "z"]

Lower(c) == IF c \in DOMAIN UpperToLower THEN UpperToLower[c] ELSE c

\* the backquote character (written by name: the character itself cannot
\* appear in a string of this module)
Backquote == "backquote"

WhitespaceChars == {" ", "\t", "\n", "\r", "\f"}



\* the characters the regex class \w accepts
WordChars == {UpperToLower[c] : c \in DOMAIN UpperToLower} \cup DOMAIN UpperToLower \cup {"0","1","2","3","4","5","6","7","8","9"} \cup {"_"}

\* Python `sub in s` on strings
StartsWith(s, prefix) ==
    Len(s) >= Len(prefix) /\ SubSeq(s, 1, Len(prefix)) = prefix

Contains(sub, s) ==
    \E p \in 0..(Len(s) - Len(sub)) :
        \A k \in 1..Len(sub) : s[p + k] = sub[k]

\* Python str.strip(): drop leading and trailing whitespace
RECURSIVE LStrip(_)
LStrip(s) ==
    IF s # <<>> /\ Head(s) \in WhitespaceChars THEN LStrip(Tail(s)) ELSE s

RECURSIVE RStrip(_)
RStrip(s) ==
    IF s # <<>> /\ s[Len(s)] \in WhitespaceChars
    THEN RStrip(SubSeq(s, 1, Len(s) - 1))
    ELSE s

Strip(s) == RStrip(LStrip(s))

\* Python s.replace(ch, '\\' + ch) for a single character ch
RECURSIVE EscapeChar(_, _)
EscapeChar(s, ch) ==
    IF s = <<>> THEN <<>>
    ELSE IF Head(s) = ch
         THEN <<"\\", ch>> \o EscapeChar(Tail(s), ch)
         ELSE <<Head(s)>> \o EscapeChar(Tail(s), ch)

(***************************************************************************)
(* Regular expressions (re.search) over the constructs the danger patterns *)
(* use: a pattern is a sequence of atoms, each a character class with a    *)
(* quantifier "1", "?", "*" or "+".  Alternations are expanded into one    *)
(* pattern per alternative.                                                *)
(***************************************************************************)

Lit(c)   == [kind |-> "lit",   ch |-> c,   q |-> "1"]
Sp(quant) == [kind |-> "space", ch |-> " ", q |-> quant]
Wd(quant) == [kind |-> "word",  ch |-> " ", q |-> quant]
Dot(quant) == [kind |-> "any",  ch |-> " ", q |-> quant]
Opt(c)   == [kind |-> "lit",   ch |-> c,   q |-> "?"]

\* one character against one atom; ignorecase as in re.IGNORECASE
AtomMatches(atom, c, ignorecase) ==
    CASE atom.kind = "lit"   -> IF ignorecase THEN Lower(c) = Lower(atom.ch)
                                              ELSE c = atom.ch
      [] atom.kind = "space" -> c \in WhitespaceChars
      [] atom.kind = "word"  -> c \in WordChars
      [] atom.kind = "any"   -> c # "\n"

RECURSIVE MatchFrom(_, _, _, _, _)
MatchFrom(re, i, s, p, ignorecase) ==
    IF i > Len(re) THEN TRUE
    ELSE LET a    == re[i]
             here == p <= Len(s) /\ AtomMatches(a, s[p], ignorecase)
         IN CASE a.q = "1" -> here /\ MatchFrom(re, i + 1, s, p + 1, ignorecase)
              [] a.q = "?" -> \/ here /\ MatchFrom(re, i + 1, s, p + 1, ignorecase)
                              \/ MatchFrom(re, i + 1, s, p, ignorecase)
              [] a.q = "*" -> \/ MatchFrom(re, i + 1, s, p, ignorecase)
                              \/ here /\ MatchFrom(re, i, s, p + 1, ignorecase)
              [] a.q = "+" -> here /\ (\/ MatchFrom(re, i, s, p + 1, ignorecase)
                                       \/ MatchFrom(re, i + 1, s, p + 1, ignorecase))

\* re.search(pattern, s, flags) is not None
Search(re, s, ignorecase) ==
    \E p \in 1..(Len(s) + 1) : MatchFrom(re, 1, s, p, ignorecase)

\* ShellSecurity.dangerous_patterns and TraditionalSecurity.dangerous_patterns
\* hold the same seven regexes; an alternation is two patterns
dangerous_patterns ==
    {\* r'\|\s*rm'
     <<Lit("|"), Sp("*"), Lit("r"), Lit("m")>>,
     \* r'>\s*/dev/(sda|sdb)'
     <<Lit(">"), Sp("*"), Lit("/"), Lit("d"), Lit("e"), Lit("v"), Lit("/"),
       Lit("s"), Lit("d"), Lit("a")>>,
     <<Lit(">"), Sp("*"), Lit("/"), Lit("d"), Lit("e"), Lit("v"), Lit("/"),
       Lit("s"), Lit("d"), Lit("b")>>,
     \* r':\(\)\{\s*:\|\s*:\s*&\s*\};\s*:'
     <<Lit(":"), Lit("("), Lit(")"), Lit("{"), Sp("*"), Lit(":"), Lit("|"),
       Sp("*"), Lit(":"), Sp("*"), Lit("&"), Sp("*"), Lit("}"), Lit(";"),
       Sp("*"), Lit(":")>>,
     \* r'rm\s+-(rf|fr)'
     <<Lit("r"), Lit("m"), Sp("+"), Lit("-"), Lit("r"), Lit("f")>>,
     <<Lit("r"), Lit("m"), Sp("+"), Lit("-"), Lit("f"), Lit("r")>>,
     \* r'sudo\s+rm'
     <<Lit("s"), Lit("u"), Lit("d"), Lit("o"), Sp("+"), Lit("r"), Lit("m")>>,
     \* r'mkfs\.?\w*\s+/dev'
     <<Lit("m"), Lit("k"), Lit("f"), Lit("s"), Opt("."), Wd("*"), Sp("+"),
       Lit("/"), Lit("d"), Lit("e"), Lit("v")>>,
     \* r'dd\s+.*of=/dev'
     <<Lit("d"), Lit("d"), Sp("+"), Dot("*"), Lit("o"), Lit("f"), Lit("="),
       Lit("/"), Lit("d"), Lit("e"), Lit("v")>>}

\* any(re.search(pattern, command, re.IGNORECASE) for pattern in ...)
MatchesDangerousPattern(command) ==
    \E pat \in dangerous_patterns : Search(pat, command, TRUE)

(***************************************************************************)
(* Python values.  A level is either a str ("BLOCKED") or a member of the  *)
(* enum SecurityLevel (SecurityLevel.BLOCKED); the two never compare equal *)
(* under Python's ==.  A raised exception is a value of its own.           *)
(***************************************************************************)

Str(s) == [type |-> "str", v |-> s]

\* class SecurityLevel(Enum): SAFE, MODERATE, RESTRICTED, BLOCKED
SecurityLevel(name) == [type |-> "SecurityLevel", v |-> name]

Raised(kind) == [type |-> "exception", v |-> kind]

IsRaised(x) == x.type = "exception"

\* Python a == b
PyEq(a, b) == a = b

\* Optional[int]
NoneInt == [some |-> FALSE, v |-> 0]
SomeInt(n) == [some |-> TRUE, v |-> n]

\* truthiness of an Optional[int]: None and 0 are falsy
Truthy(x) == x.some /\ x.v # 0

\* Optional[str]
NoneStr == [some |-> FALSE, v |-> <<>>]
SomeStr(chars) == [some |-> TRUE, v |-> chars]

\* truthiness of an Optional[str]: None and "" are falsy
TruthyStr(x) == x.some /\ x.v # <<>>

(***************************************************************************)
(* shlex.split(command): POSIX mode, whitespace_split, no comments          *)
(***************************************************************************)

ShlexWhitespace == {" ", "\t", "\r", "\n"}
ShlexQuotes == {"'", "\""}

RECURSIVE ShlexRun(_, _, _, _, _, _, _)
ShlexRun(s, p, state, escapedstate, token, quoted, acc) ==
    LET eof == p > Len(s)
        c   == s[p]
        emitted == IF token # <<>> \/ quoted THEN Append(acc, token) ELSE acc
    IN CASE state = " " ->
              IF eof THEN [ok |-> TRUE, parts |-> acc]
              ELSE IF c \in ShlexWhitespace
                   THEN ShlexRun(s, p + 1, " ", escapedstate, token, quoted, acc)
              ELSE IF c = "\\"
                   THEN ShlexRun(s, p + 1, "\\", "a", token, quoted, acc)
              ELSE IF c \in ShlexQuotes
                   THEN ShlexRun(s, p + 1, c, escapedstate, token, quoted, acc)
              ELSE ShlexRun(s, p + 1, "a", escapedstate, <<c>>, quoted, acc)
         [] state \in ShlexQuotes ->
              IF eof THEN [ok |-> FALSE, parts |-> <<>>]   \* No closing quotation
              ELSE IF c = state
                   THEN ShlexRun(s, p + 1, "a", escapedstate, token, TRUE, acc)
              ELSE IF c = "\\" /\ state = "\""
                   THEN ShlexRun(s, p + 1, "\\", state, token, TRUE, acc)
              ELSE ShlexRun(s, p + 1, state, escapedstate, Append(token, c),
                            TRUE, acc)
         [] state = "\\" ->
              IF eof THEN [ok |-> FALSE, parts |-> <<>>]   \* No escaped character
              ELSE LET kept == IF /\ escapedstate \in ShlexQuotes
                                  /\ c # "\\"
                                  /\ c # escapedstate
                               THEN Append(token, "\\")
                               ELSE token
                   IN ShlexRun(s, p + 1, escapedstate, escapedstate,
                               Append(kept, c), quoted, acc)
         [] state = "a" ->
              IF eof THEN [ok |-> TRUE, parts |-> emitted]
              ELSE IF c \in ShlexWhitespace
                   THEN IF token # <<>> \/ quoted
                        THEN ShlexRun(s, p + 1, " ", escapedstate, <<>>, FALSE,
                                      emitted)
                        ELSE ShlexRun(s, p + 1, " ", escapedstate, token,
                                      quoted, acc)
              ELSE IF c \in ShlexQuotes
                   THEN ShlexRun(s, p + 1, c, escapedstate, token, quoted, acc)
              ELSE IF c = "\\"
                   THEN ShlexRun(s, p + 1, "\\", "a", token, quoted, acc)
              ELSE ShlexRun(s, p + 1, "a", escapedstate, Append(token, c),
                            quoted, acc)

\* ok = FALSE stands for the ValueError shlex raises
shlex_split(s) == ShlexRun(s, 1, " ", " ", <<>>, FALSE, <<>>)

(***************************************************************************)
(* ShellSecurity (src/shell_executor.py)                                   *)
(***************************************************************************)

ShellSecurity_dangerous_commands ==
    {<<"r", "m">>, <<"s", "u", "d", "o">>, <<"s", "u">>, <<"d", "d">>,
     <<"m", "k", "f", "s">>, <<"f", "d", "i", "s", "k">>,
     <<"c", "h", "m", "o", "d">>, <<"c", "h", "o", "w", "n">>,
     <<"w", "g", "e", "t">>, <<"c", "u", "r", "l">>, <<"n", "c">>,
     <<"n", "e", "t", "c", "a", "t">>, <<"t", "e", "l", "n", "e", "t">>}

allowed_commands ==
    {<<"l", "s">>, <<"c", "a", "t">>, <<"g", "r", "e", "p">>,
     <<"f", "i", "n", "d">>, <<"p", "w", "d">>, <<"e", "c", "h", "o">>,
     <<"d", "a", "t", "e">>, <<"w", "h", "o", "a", "m", "i">>, <<"p", "s">>,
     <<"t", "o", "p">>, <<"d", "f">>, <<"d", "u">>, <<"h", "e", "a", "d">>,
     <<"t", "a", "i", "l">>, <<"w", "c">>, <<"s", "o", "r", "t">>,
     <<"u", "n", "i", "q">>, <<"c", "u", "t">>, <<"a", "w", "k">>,
     <<"s", "e", "d">>, <<"t", "r">>, <<"x", "a", "r", "g", "s">>,
     <<"w", "h", "i", "c", "h">>, <<"w", "h", "e", "r", "e", "i", "s">>,
     <<"f", "i", "l", "e">>, <<"s", "t", "a", "t">>,
     <<"d", "i", "r", "n", "a", "m", "e">>,
     <<"b", "a", "s", "e", "n", "a", "m", "e">>,
     <<"d", "i", "r", "n", "a", "m", "e">>,
     <<"r", "e", "a", "l", "p", "a", "t", "h">>,
     <<"r", "e", "a", "d", "l", "i", "n", "k">>, <<"e", "n", "v">>,
     <<"p", "r", "i", "n", "t", "e", "n", "v">>,
     <<"u", "p", "t", "i", "m", "e">>,
     <<"h", "o", "s", "t", "n", "a", "m", "e">>,
     <<"u", "n", "a", "m", "e">>,
     <<"l", "s", "b", "_", "r", "e", "l", "e", "a", "s", "e">>,
     <<"p", "y", "t", "h", "o", "n", "3">>,
     <<"p", "y", "t", "h", "o", "n">>, <<"n", "o", "d", "e">>,
     <<"n", "p", "m">>, <<"p", "i", "p">>, <<"p", "i", "p", "3">>,
     <<"g", "i", "t">>}

\* the list in `any(sys_cmd in cmd for sys_cmd in [...])`
system_commands ==
    {<<"s", "y", "s", "t", "e", "m", "c", "t", "l">>,
     <<"s", "e", "r", "v", "i", "c", "e">>, <<"i", "n", "i", "t">>,
     <<"r", "c">>}

\* validate_command consulting the whitelist before the danger patterns
ShellSecurity_validate_command_whitelist_first(command) ==
    LET command_parts == shlex_split(command)
    IN IF ~command_parts.ok THEN Raised("ValueError")
       ELSE IF command_parts.parts = <<>> THEN SecurityLevel("BLOCKED")
       ELSE LET cmd == command_parts.parts[1]
            IN IF cmd \in ShellSecurity_dangerous_commands
               THEN SecurityLevel("BLOCKED")
               ELSE IF cmd \in allowed_commands
               THEN SecurityLevel("SAFE")
               ELSE IF MatchesDangerousPattern(command)
               THEN SecurityLevel("BLOCKED")
               ELSE IF \E sys_cmd \in system_commands : Contains(sys_cmd, cmd)
               THEN SecurityLevel("RESTRICTED")
               ELSE SecurityLevel("MODERATE")

\* ShellSecurity.validate_command: a SecurityLevel, or the ValueError of
\* shlex.split, which the method does not catch
ShellSecurity_validate_command(command) ==
    LET command_parts == shlex_split(command)
    IN IF ~command_parts.ok THEN Raised("ValueError")
       ELSE IF command_parts.parts = <<>> THEN SecurityLevel("BLOCKED")
       ELSE LET cmd == command_parts.parts[1]
            IN IF cmd \in ShellSecurity_dangerous_commands
               THEN SecurityLevel("BLOCKED")
               ELSE IF MatchesDangerousPattern(command)
               THEN SecurityLevel("BLOCKED")
               ELSE IF cmd \in allowed_commands
               THEN SecurityLevel("SAFE")
               ELSE IF \E sys_cmd \in system_commands : Contains(sys_cmd, cmd)
               THEN SecurityLevel("RESTRICTED")
               ELSE SecurityLevel("MODERATE")

\* dangerous_chars, in list order
dangerous_chars == <<"&", "|", ";", Backquote, "$", "(", ")", "<", ">">>

RECURSIVE SanitizeFrom(_, _)
SanitizeFrom(command, i) ==
    IF i > Len(dangerous_chars) THEN command
    ELSE LET char == dangerous_chars[i]
         IN IF Contains(<<char>>, command) /\ char \notin {"|", ">"}
            THEN SanitizeFrom(EscapeChar(command, char), i + 1)
            ELSE SanitizeFrom(command, i + 1)

\* sanitize_command returning the escaped string as it is
sanitize_command_unstripped(command) == SanitizeFrom(command, 1)

\* ShellSecurity.sanitize_command
sanitize_command(command) == Strip(SanitizeFrom(command, 1))

(***************************************************************************)
(* TraditionalSecurity (src/llm_security_analyzer.py)                      *)
(***************************************************************************)

TraditionalSecurity_dangerous_commands ==
    {<<"r", "m">>, <<"s", "u", "d", "o">>, <<"s", "u">>, <<"d", "d">>,
     <<"m", "k", "f", "s">>, <<"f", "d", "i", "s", "k">>,
     <<"c", "h", "m", "o", "d">>, <<"c", "h", "o", "w", "n">>}

\* TraditionalSecurity.validate_command: the str "BLOCKED" or "SAFE"
TraditionalSecurity_validate_command(command) ==
    IF \E cmd \in TraditionalSecurity_dangerous_commands : Contains(cmd, command)
    THEN Str("BLOCKED")
    ELSE IF MatchesDangerousPattern(command)
    THEN Str("BLOCKED")
    ELSE Str("SAFE")

(***************************************************************************)
(* The commands submitted to the gateway                                   *)
(***************************************************************************)

cmd_ls == <<"l", "s", " ", "-", "l", "a">>
cmd_rm_rf == <<"r", "m", " ", "-", "r", "f", " ", "/", "t", "m", "p", "/", "x">>
cmd_to_disk == <<"e", "c", "h", "o", " ", "a", " ", ">", " ", "/", "d", "e", "v", "/", "s", "d", "a">>
cmd_empty == <<>>
cmd_sleep == <<"s", "l", "e", "e", "p", " ", "5">>
cmd_pipe_RM == <<"e", "c", "h", "o", " ", "a", " ", "|", " ", "R", "M", " ", "b">>
cmd_meta == <<" ", "e", "c", "h", "o", " ", "$", "a", ";", "b", "&", Backquote, "c", Backquote, "(", "d", ")", "<", "e", "|", "f", ">", "g", " ">>
Commands ==
    {cmd_ls,
     cmd_rm_rf,
     <<"s", "u", "d", "o", " ", "r", "e", "b", "o", "o", "t">>,
     <<"c", "u", "r", "l", " ", "x">>,
     <<"g", "i", "t", " ", "a", "d", "d", " ", ".">>,
     <<"e", "c", "h", "o", " ", "s", "u", "m", "m", "a", "r", "y">>,
     cmd_to_disk,
     cmd_empty,
     <<"e", "c", "h", "o", " ", "'", "a">>,
     <<"s", "y", "s", "t", "e", "m", "c", "t", "l", " ", "s", "t", "o", "p", " ", "x">>,
     <<"a", "r", "c", "h">>,
     cmd_sleep,
     cmd_pipe_RM,
     cmd_meta,
     <<"'", "r", "'", "m", " ", "x">>,
     <<"m", "k", "f", "s", ".", "e", "x", "t", "4", " ", "/", "d", "e", "v", "/", "s", "d", "a">>,
     <<"d", "d", " ", "i", "f", "=", "a", " ", "o", "f", "=", "/", "d", "e", "v", "/", "s", "d", "a">>,
     <<":", "(", ")", "{", " ", ":", "|", ":", "&", " ", "}", ";", ":">>,
     <<"c", "h", "m", "o", "d", " ", "6", "4", "4", " ", "f">>}


(***************************************************************************)
(* LLMSecurityAnalyzer (src/llm_security_analyzer.py)                      *)
(*                                                                         *)
(* A dict returned by _analyze_with_llm is a record; a key is a record     *)
(* [kind, v] with kind "num" (a number v), "text" (a non-numeric string)   *)
(* or "missing".  confidence is kept in tenths (0.5 is 5).                 *)
(***************************************************************************)

Num(n) == [kind |-> "num", v |-> n]
MissingKey == [kind |-> "missing", v |-> 0]
TextValue == [kind |-> "text", v |-> 0]

\* fallback_no_api answering like a failed request
fallback_no_api_as_error ==
    [security_level        |-> "caution",
     risk_score            |-> Num(50),
     risk_factors          |-> <<"LLM API error">>,
     explanation           |-> "LLM analysis failed: {e}",
     confidence            |-> Num(2),
     recommended_timeout   |-> Num(30),
     requires_confirmation |-> "True",
     command_category      |-> "unknown"]

\* `if not self.api_key:` fallback, lines 123-133
fallback_no_api ==
    [security_level        |-> "caution",
     risk_score            |-> Num(50),
     risk_factors          |-> <<"No LLM API available">>,
     explanation           |-> "LLM analysis unavailable, using fallback security measures",
     confidence            |-> Num(5),
     recommended_timeout   |-> Num(30),
     requires_confirmation |-> "True",
     command_category      |-> "unknown"]

\* "Fallback response", lines 173-183
fallback_parse_failed ==
    [security_level        |-> "caution",
     risk_score            |-> Num(50),
     risk_factors          |-> <<"API response parsing failed">>,
     explanation           |-> "Failed to parse LLM response, using caution level",
     confidence            |-> Num(3),
     recommended_timeout   |-> Num(30),
     requires_confirmation |-> "True",
     command_category      |-> "unknown"]

\* `except Exception as e:` fallback, lines 187-197
fallback_api_error ==
    [security_level        |-> "caution",
     risk_score            |-> Num(50),
     risk_factors          |-> <<"LLM API error">>,
     explanation           |-> "LLM analysis failed: {e}",
     confidence            |-> Num(2),
     recommended_timeout   |-> Num(30),
     requires_confirmation |-> "True",
     command_category      |-> "unknown"]

\* risk scores a remote answer may carry, inside and outside 0..100

\* the JSON objects the remote model may answer with
RemoteDicts ==
    [security_level        : {"blocked"},
     risk_score            : {Num(n) : n \in {-5, 10, 29, 30, 31, 49, 50, 59, 60, 79, 80, 100, 150}} \cup {MissingKey, TextValue},
     risk_factors          : {<<"remote factor">>},
     explanation           : {"remote explanation"},
     confidence            : {Num(9)},
     recommended_timeout   : {Num(30)},
     requires_confirmation : {"True", "False", "missing"},
     command_category      : {"remote category"}]

\* The message content of a 200 answer, as a sequence of pieces: "{" and "}",
\* "t" for text without braces, "k" for a key and its colon, and "s10", "s80"
\* for the text of all analysis fields with that risk_score.
PairScores == [s10 |-> 10, s80 |-> 80]
IsPair(piece) == piece \in {"s10", "s80"}

\* line 165: re.search(r'\{.*\}', content, re.DOTALL), greedy: from the first
\* "{" to the last "}" after it
json_match(content) ==
    LET opens  == {i \in 1..Len(content) : content[i] = "{"}
        closes == {j \in 1..Len(content) : content[j] = "}"}
    IN IF opens = {} THEN [found |-> FALSE, group |-> <<>>]
       ELSE LET first == CHOOSE i \in opens : \A o \in opens : i <= o
                after == {j \in closes : j > first}
            IN IF after = {} THEN [found |-> FALSE, group |-> <<>>]
               ELSE LET last == CHOOSE j \in after : \A c \in after : j >= c
                    IN [found |-> TRUE, group |-> SubSeq(content, first, last)]

\* json.loads on an object: "{", then pairs or keys with a nested object,
\* then "}".  The position after the object that starts at p, 0 if there is
\* none.
RECURSIVE ParseObject(_, _)
RECURSIVE ParseMembers(_, _)
ParseObject(text, p) ==
    IF p <= Len(text) /\ text[p] = "{" THEN ParseMembers(text, p + 1) ELSE 0
ParseMembers(text, p) ==
    IF p > Len(text) THEN 0
    ELSE IF text[p] = "}" THEN p + 1
    ELSE IF IsPair(text[p]) THEN ParseMembers(text, p + 1)
    ELSE IF text[p] = "k"
    THEN LET q == ParseObject(text, p + 1)
         IN IF q = 0 THEN 0 ELSE ParseMembers(text, q)
    ELSE 0

\* the risk_score of the parsed object: the last pair at its top level
RECURSIVE TopScore(_, _, _, _)
TopScore(text, p, depth, score) ==
    IF p > Len(text) THEN score
    ELSE IF text[p] = "{" THEN TopScore(text, p + 1, depth + 1, score)
    ELSE IF text[p] = "}" THEN TopScore(text, p + 1, depth - 1, score)
    ELSE IF IsPair(text[p]) /\ depth = 1
    THEN TopScore(text, p + 1, depth, Num(PairScores[text[p]]))
    ELSE TopScore(text, p + 1, depth, score)

\* the dict json.loads returns for an object with that risk_score
parsed_dict(score) ==
    [security_level        |-> "blocked",
     risk_score            |-> score,
     risk_factors          |-> <<"remote factor">>,
     explanation           |-> "remote explanation",
     confidence            |-> Num(9),
     recommended_timeout   |-> Num(30),
     requires_confirmation |-> "True",
     command_category      |-> "remote category"]

\* lines 161-183: what _analyze_with_llm returns for the content of a 200
\* answer
analysis_of_content(content) ==
    LET m == json_match(content)
    IN IF m.found /\ ParseObject(m.group, 1) = Len(m.group) + 1
       THEN parsed_dict(TopScore(m.group, 1, 0, MissingKey))
       ELSE fallback_parse_failed

\* what the HTTP exchange can do: fail or time out, answer with a status
\* other than 200, answer 200 without the choices/message structure, with
\* content holding no {...}, with {...} that is not JSON, or with a JSON object
Responses ==
    {[kind |-> k, dict |-> fallback_parse_failed] :
        k \in {"network_error", "http_error", "bad_structure", "no_json",
               "invalid_json"}}
    \cup {[kind |-> "json", dict |-> d] : d \in RemoteDicts}

\* analyze_with_llm with one fallback for every failed exchange
analyze_with_llm_one_fallback(api_key, response) ==
    IF ~api_key THEN fallback_no_api
    ELSE IF response.kind = "json" THEN response.dict
    ELSE fallback_parse_failed

\* LLMSecurityAnalyzer._analyze_with_llm
analyze_with_llm(api_key, response) ==
    IF ~api_key THEN fallback_no_api
    ELSE CASE response.kind \in {"network_error", "bad_structure"} ->
                 fallback_api_error
           [] response.kind = "json" -> response.dict
           [] OTHER -> fallback_parse_failed

\* level_map.get(result.get("security_level", "caution"), CAUTION)
level_map(name) ==
    IF name \in {"safe", "caution", "dangerous", "critical", "blocked"}
    THEN name
    ELSE "caution"

\* LLMSecurityAnalyzer.analyze_command: the LLMSecurityAnalysis, or the
\* ValueError of float() on a non-numeric risk_score
analyze_command(api_key, response) ==
    LET result == analyze_with_llm(api_key, response)
    IN IF result.risk_score.kind = "text" THEN Raised("ValueError")
       ELSE [type                  |-> "LLMSecurityAnalysis",
             v                     |-> "",
             security_level        |-> level_map(result.security_level),
             risk_score            |-> IF result.risk_score.kind = "missing"
                                       THEN 50 ELSE result.risk_score.v,
             risk_factors          |-> result.risk_factors,
             explanation           |-> result.explanation,
             confidence            |-> IF result.confidence.kind = "missing"
                                       THEN 5 ELSE result.confidence.v,
             requires_confirmation |-> result.requires_confirmation # "False",
             command_category      |-> result.command_category]

(***************************************************************************)
(* HybridSecurityAnalyzer.comprehensive_analysis                           *)
(***************************************************************************)

Max(a, b) == IF a >= b THEN a ELSE b

\* the dict literal {"SAFE": 10, "CAUTION": 30, "DANGEROUS": 70, "CRITICAL": 90}
baseline ==
    [l \in {"SAFE", "CAUTION", "DANGEROUS", "CRITICAL"} |->
        CASE l = "SAFE" -> 10 [] l = "CAUTION" -> 30
          [] l = "DANGEROUS" -> 70 [] l = "CRITICAL" -> 90]

\* final_score of both branches, lines 287 and 291-292
final_score(traditional_level, llm_risk_score) ==
    IF PyEq(traditional_level, Str("BLOCKED"))
    THEN Max(llm_risk_score, 90)
    ELSE Max(llm_risk_score, baseline[traditional_level.v])

\* level_of_score with the first threshold taken strictly
level_of_score_strict(score) ==
    IF score > 80 THEN "BLOCKED"
    ELSE IF score >= 60 THEN "RESTRICTED"
    ELSE IF score >= 30 THEN "CAUTION"
    ELSE "SAFE"

\* the threshold ladder, lines 294-301
level_of_score(score) ==
    IF score >= 80 THEN "BLOCKED"
    ELSE IF score >= 60 THEN "RESTRICTED"
    ELSE IF score >= 30 THEN "CAUTION"
    ELSE "SAFE"

\* final_level of both branches, lines 284-301
final_level(traditional_level, score) ==
    IF PyEq(traditional_level, Str("BLOCKED"))
    THEN "BLOCKED"
    ELSE level_of_score(score)

\* combined_requires_confirmation with the score test taken strictly
combined_requires_confirmation_strict(llm_requires_confirmation, score) ==
    llm_requires_confirmation \/ score > 50

\* "requires_confirmation": llm_analysis.requires_confirmation or final_score >= 50
combined_requires_confirmation(llm_requires_confirmation, score) ==
    llm_requires_confirmation \/ score >= 50

Reason(text, explanation) == [text |-> text, explanation |-> explanation]

\* Optional[str] None
NoneReason == Reason("None", "")

NoAnalysis == [type |-> "NoneType", v |-> ""]

\* comprehensive_analysis given the result of analyze_command
comprehensive_analysis(command, llm_analysis) ==
    IF IsRaised(llm_analysis) THEN llm_analysis
    ELSE LET traditional_level == TraditionalSecurity_validate_command(command)
             score == final_score(traditional_level, llm_analysis.risk_score)
         IN [type                  |-> "dict",
             v                     |-> "",
             final_security_level  |-> Str(final_level(traditional_level, score)),
             risk_score            |-> score,
             llm_analysis          |-> llm_analysis,
             traditional_analysis  |-> traditional_level,
             decision_reason       |->
                 IF PyEq(traditional_level, Str("BLOCKED"))
                 THEN Reason("Blocked by traditional security + LLM analysis", "")
                 ELSE Reason("Combined analysis: ", llm_analysis.explanation),
             requires_confirmation |->
                 combined_requires_confirmation(
                     llm_analysis.requires_confirmation, score)]

(***************************************************************************)
(* ShellExecutor._perform_security_analysis                                *)
(***************************************************************************)

\* the `else` branch, lines 421-427: the level stays a SecurityLevel member
traditional_only_analysis(command) ==
    LET traditional_level == ShellSecurity_validate_command(command)
    IN IF IsRaised(traditional_level) THEN traditional_level
       ELSE [type                  |-> "dict",
             v                     |-> "",
             final_security_level  |-> traditional_level,
             risk_score            |-> IF PyEq(traditional_level, Str("BLOCKED"))
                                       THEN 50 ELSE 20,
             llm_analysis          |-> NoAnalysis,
             traditional_analysis  |-> traditional_level,
             decision_reason       |-> Reason("Traditional pattern-based security", ""),
             requires_confirmation |-> ~PyEq(traditional_level, Str("SAFE"))]

perform_security_analysis(llm_security, command, api_key, response) ==
    IF llm_security
    THEN comprehensive_analysis(command, analyze_command(api_key, response))
    ELSE traditional_only_analysis(command)


(***************************************************************************)
(* ShellExecutor.execute_command: one call, from entry to return           *)
(***************************************************************************)

\* ShellExecutor(timeout=...): the configured default deadline, in seconds
self_timeout == 2

\* ShellExecutor(max_output_size=...): the cap on each captured stream
max_output_size == 2

\* largest timeout a caller passes
MaxCallerTimeout == 2

\* longest stream the spawned process writes
MaxRawOutput == max_output_size + 1

\* seconds that may pass between entry and the spawn
MaxPreDelay == 1

(***************************************************************************)
(* Paths: absolute path strings of a file system without symbolic links   *)
(***************************************************************************)

\* line 154: self.working_dir = os.getcwd(), here the directory /w
working_dir == <<"/", "w">>

\* the components of a path string between its slashes
RECURSIVE SplitPath(_, _, _)
SplitPath(s, component, acc) ==
    IF s = <<>>
    THEN IF component = <<>> THEN acc ELSE Append(acc, component)
    ELSE IF Head(s) = "/"
    THEN SplitPath(Tail(s), <<>>,
                   IF component = <<>> THEN acc ELSE Append(acc, component))
    ELSE SplitPath(Tail(s), Append(component, Head(s)), acc)

\* drop "." and let ".." remove the component before it (none above the root)
RECURSIVE Collapse(_, _)
Collapse(components, acc) ==
    IF components = <<>> THEN acc
    ELSE IF Head(components) = <<".">> THEN Collapse(Tail(components), acc)
    ELSE IF Head(components) = <<".", ".">>
    THEN Collapse(Tail(components),
                  IF acc = <<>> THEN acc ELSE SubSeq(acc, 1, Len(acc) - 1))
    ELSE Collapse(Tail(components), Append(acc, Head(components)))

RECURSIVE JoinPath(_)
JoinPath(components) ==
    IF components = <<>> THEN <<>>
    ELSE <<"/">> \o Head(components) \o JoinPath(Tail(components))

\* str(Path(path).resolve()) of an absolute path
Resolve(path) ==
    LET components == Collapse(SplitPath(path, <<>>, <<>>), <<>>)
    IN IF components = <<>> THEN <<"/">> ELSE JoinPath(components)

\* lines 396-405
validate_path(path) == StartsWith(Resolve(path), Resolve(working_dir))

\* the directories a caller passes as cwd

CwdOverrides ==
    {<<"/", "w">>, <<"/", "w", "/", "s">>, <<"/", "w", "/", "s", "/", ".", ".">>, <<"/", "w", "/", ".", ".", "/", "e">>,
     <<"/", "w", "2">>, <<"/", "e">>}


VARIABLES
    pc,                 \* where the call stands
    command,            \* argument: the command string
    cwd,                \* argument: Optional[str]
    timeout,            \* argument: Optional[int]
    capture_output,     \* argument
    interactive_mode,   \* argument
    llm_security,       \* self.llm_security is not None
    api_key,            \* the analyzer has an API key
    security_result,    \* local: the dict of _perform_security_analysis
    requests,           \* number of HTTP requests the analyzer has sent
    response_kind,      \* what came back for the request, "none" without one
    prompted,           \* the decision was printed and input() was called
    user_input,         \* local: what input() gave
    process,            \* the subprocess of subprocess.run and its exit code
    sanitized_command,  \* local
    execution_cwd,      \* local: the directory handed to subprocess.run
    spawned,            \* number of subprocesses started by this call
    now,                \* time.time()
    start_time,         \* local
    spawn_time,         \* when subprocess.run started the process
    result,             \* the CommandResult returned
    calls,              \* concurrent calls on the shared executor: their locals
    probe,              \* a direct call of one of the pure methods: input, outputs
    agent,              \* a call of BusinessLogicAgent.process_user_input
    registry            \* the registry file and the calls working on it

vars == <<pc, command, cwd, timeout, capture_output, interactive_mode,
          llm_security, api_key, security_result, requests, response_kind,
          prompted, user_input, process, sanitized_command, execution_cwd,
          spawned, now, start_time, spawn_time, result, calls, probe, agent,
          registry>>

args == <<command, cwd, timeout, capture_output, interactive_mode, llm_security,
          api_key, start_time, calls, probe, agent, registry>>

analysed == <<security_result, requests, response_kind>>

NoResult == [status |-> "NONE"]

\* input() has not been called
NoInput == [kind |-> "none", text |-> <<>>]

\* no subprocess exists
NoProcess == [state |-> "none", returncode |-> 0, stdout |-> <<>>, stderr |-> <<>>]

\* the CompletedProcess / the child of subprocess.run: its exit code and the
\* raw streams it handed back (both empty while none were collected)
Process(state, returncode, stdout, stderr) ==
    [state |-> state, returncode |-> returncode, stdout |-> stdout, stderr |-> stderr]

\* a message string: a format literal and the values put into it
Message(fmt, chars, n, reason) ==
    [fmt |-> fmt, chars |-> chars, n |-> n, reason |-> reason]

\* dataclass CommandResult
CommandResult(cmd, status, stdout, stderr, rc, elapsed, level, reason) ==
    [command        |-> cmd,
     status         |-> status,
     stdout         |-> stdout,
     stderr         |-> stderr,
     return_code    |-> rc,
     execution_time |-> elapsed,
     security_level |-> level,
     blocked_reason |-> reason]


\* the part of the initial state every call shares
Entry ==
    /\ pc = "received"
    /\ security_result = NoAnalysis
    /\ requests = 0
    /\ response_kind = "none"
    /\ prompted = FALSE
    /\ user_input = NoInput
    /\ process = NoProcess
    /\ sanitized_command = <<>>
    /\ execution_cwd = <<>>
    /\ spawned = 0
    /\ now = 0
    /\ start_time = 0
    /\ spawn_time = 0
    /\ result = NoResult

\* no concurrent calls
NoCalls == <<>>

\* no direct call of a pure method
NoProbe == [applied |-> {}]

\* no agent at work
NoAgent == [pc |-> "none"]

\* no registry in use
NoRegistry == [calls |-> <<>>]

\* the variables of the other specifications, idle
Idle ==
    /\ calls = NoCalls
    /\ probe = NoProbe
    /\ agent = NoAgent
    /\ registry = NoRegistry

Init ==
    /\ Entry
    /\ Idle
    /\ command \in Commands
    /\ cwd = NoneStr
    /\ timeout \in {NoneInt} \cup {SomeInt(n) : n \in 0..MaxCallerTimeout}
    /\ capture_output \in BOOLEAN
    /\ interactive_mode \in BOOLEAN
    /\ llm_security \in BOOLEAN
    /\ api_key \in (IF llm_security THEN BOOLEAN ELSE {FALSE})

\* calls of `ls -la` that pass a working directory
InitCwd ==
    /\ Entry
    /\ Idle
    /\ command = cmd_ls
    /\ cwd \in {NoneStr, SomeStr(<<>>)} \cup {SomeStr(path) : path \in CwdOverrides}
    /\ timeout = NoneInt
    /\ capture_output = TRUE
    /\ interactive_mode \in BOOLEAN
    /\ llm_security \in BOOLEAN
    /\ api_key \in (IF llm_security THEN BOOLEAN ELSE {FALSE})

\* line 174: security_result["final_security_level"] == "BLOCKED"
is_blocked(sr) == PyEq(sr.final_security_level, Str("BLOCKED"))

\* confirmation_gate asking in every mode
confirmation_gate_any_mode(interactive, sr) ==
    /\ \E l \in {"MODERATE", "RESTRICTED"} : PyEq(sr.final_security_level, Str(l))
    /\ sr.requires_confirmation
    /\ sr.risk_score > 30

\* lines 187-191: the condition under which the user is asked
confirmation_gate(interactive, sr) ==
    /\ interactive
    /\ \E l \in {"MODERATE", "RESTRICTED"} : PyEq(sr.final_security_level, Str(l))
    /\ sr.requires_confirmation
    /\ sr.risk_score > 30

\* lines 175-184
blocked_result(cmd, sr, elapsed) ==
    CommandResult(cmd, "BLOCKED", <<>>,
                  Message("Command blocked: {reason}", <<>>, 0, sr.decision_reason),
                  126, elapsed, SecurityLevel("BLOCKED"), sr.decision_reason)

\* the responses that matter to the call: only a hybrid analyzer with an
\* API key talks to the network
ResponsesOf(hybrid, key) ==
    IF hybrid /\ key THEN Responses
    ELSE {[kind |-> "network_error", dict |-> fallback_parse_failed]}

\* lines 168-224 up to the input() call
Analyze ==
    /\ pc = "received"
    /\ \E response \in ResponsesOf(llm_security, api_key) :
         LET sr == perform_security_analysis(llm_security, command, api_key,
                                             response)
         IN /\ security_result' = sr
            /\ requests' = (IF llm_security /\ api_key THEN 1 ELSE 0)
            /\ response_kind' = (IF llm_security /\ api_key THEN response.kind
                                                             ELSE "none")
            /\ IF IsRaised(sr)
               THEN /\ pc' = "raised"
                    /\ UNCHANGED <<result, prompted>>
               ELSE IF is_blocked(sr)
               THEN /\ pc' = "returned"
                    /\ result' = blocked_result(command, sr, now - start_time)
                    /\ UNCHANGED prompted
               ELSE IF confirmation_gate(interactive_mode, sr)
               THEN /\ pc' = "await_confirmation"
                    /\ prompted' = TRUE
                    /\ UNCHANGED result
               ELSE /\ pc' = "ready"
                    /\ UNCHANGED <<result, prompted>>
    /\ UNCHANGED <<args, user_input, process, sanitized_command,
                   execution_cwd, spawned, now, spawn_time>>

RECURSIVE LowerStr(_)
LowerStr(s) == IF s = <<>> THEN <<>> ELSE <<Lower(Head(s))>> \o LowerStr(Tail(s))

\* what the user may type at the prompt
UserInputs ==
    {<<"y">>, <<" ", "Y", "E", "S", " ">>, <<"shi">>, <<"n">>, <<>>,
     <<"y", "e", "p">>}

\* is_affirmative accepting any answer that starts with y
is_affirmative_prefix(typed) ==
    LET answer == LowerStr(Strip(typed))
    IN answer # <<>> /\ Head(answer) = "y"

\* line 202-203: input(...).strip().lower() in ['y', 'yes', 'shi']
\* ("shi" stands for the one CJK character of the source)
is_affirmative(typed) ==
    LowerStr(Strip(typed)) \in {<<"y">>, <<"y", "e", "s">>, <<"shi">>}

\* cancelled_result with the generic error code
cancelled_result_rc1(cmd, elapsed) ==
    [command        |-> cmd,
     status         |-> "BLOCKED",
     stdout         |-> <<>>,
     stderr         |-> [fmt |-> "Command cancelled by user", chars |-> <<>>,
                         n |-> 0, reason |-> NoneReason],
     return_code    |-> 1,
     execution_time |-> elapsed,
     security_level |-> SecurityLevel("BLOCKED"),
     blocked_reason |-> Reason("User cancelled execution", "")]

\* lines 204-213
cancelled_result(cmd, elapsed) ==
    CommandResult(cmd, "BLOCKED", <<>>,
                  Message("Command cancelled by user", <<>>, 0, NoneReason),
                  130, elapsed, SecurityLevel("BLOCKED"),
                  Reason("User cancelled execution", ""))

\* lines 215-224
interrupted_result(cmd, elapsed) ==
    CommandResult(cmd, "BLOCKED", <<>>,
                  Message("Command cancelled by user interruption", <<>>, 0,
                          NoneReason),
                  130, elapsed, SecurityLevel("BLOCKED"),
                  Reason("User interrupted", ""))

\* lines 201-213: input() returns
Confirm ==
    /\ pc = "await_confirmation"
    /\ \E typed \in UserInputs :
         /\ user_input' = [kind |-> "text", text |-> typed]
         /\ IF is_affirmative(typed)
            THEN /\ pc' = "ready"
                 /\ UNCHANGED result
            ELSE /\ pc' = "returned"
                 /\ result' = cancelled_result(command, now - start_time)
    /\ UNCHANGED <<args, analysed, prompted, process, sanitized_command,
                   execution_cwd, spawned, now, spawn_time>>

\* lines 214-224: input() raises KeyboardInterrupt or EOFError
Interrupt ==
    /\ pc = "await_confirmation"
    /\ pc' = "returned"
    /\ result' = interrupted_result(command, now - start_time)
    /\ user_input' = [kind |-> "interrupt", text |-> <<>>]
    /\ UNCHANGED <<args, analysed, prompted, process, sanitized_command,
                   execution_cwd, spawned, now, spawn_time>>

\* line 239: timeout or self.timeout
Deadline(t) == IF Truthy(t) THEN t.v ELSE self_timeout

\* time passes while the call analyses and waits, and while the process runs
Tick ==
    /\ \/ pc = "ready" /\ now - start_time < MaxPreDelay
       \/ pc = "executing" /\ now - spawn_time < Deadline(timeout)
    /\ now' = now + 1
    /\ UNCHANGED <<pc, args, analysed, prompted, user_input, process,
                   sanitized_command, execution_cwd, spawned, spawn_time, result>>

\* line 230: cwd or self.working_dir
execution_cwd_of(dir) == IF TruthyStr(dir) THEN dir.v ELSE working_dir

\* lines 226-241: sanitize, then subprocess.run starts the shell
Spawn ==
    /\ pc = "ready"
    /\ sanitized_command' = sanitize_command(command)
    /\ execution_cwd' = execution_cwd_of(cwd)
    /\ spawned' = spawned + 1
    /\ spawn_time' = now
    /\ process' = Process("running", 0, <<>>, <<>>)
    /\ pc' = "executing"
    /\ UNCHANGED <<args, analysed, prompted, user_input, now, result>>

\* lines 274-283
error_result(cmd, elapsed) ==
    CommandResult(cmd, "ERROR", <<>>,
                  Message("{str(e)}", <<>>, 0, NoneReason),
                  1, elapsed, SecurityLevel("BLOCKED"), NoneReason)

\* lines 226-241 and 274-283: subprocess.run raises before a process exists
SpawnFail ==
    /\ pc = "ready"
    /\ sanitized_command' = sanitize_command(command)
    /\ execution_cwd' = execution_cwd_of(cwd)
    /\ pc' = "returned"
    /\ result' = error_result(sanitize_command(command), now - start_time)
    /\ UNCHANGED <<args, analysed, prompted, user_input, process, spawned,
                   now, spawn_time>>

RECURSIVE Stream(_)
Stream(n) == IF n = 0 THEN <<>> ELSE <<"x">> \o Stream(n - 1)

marker_output ==
    <<"\n", "[", "O", "u", "t", "p", "u", "t", " ", "t", "r", "u", "n", "c",
      "a", "t", "e", "d", "]">>
marker_error ==
    <<"\n", "[", "E", "r", "r", "o", "r", " ", "t", "r", "u", "n", "c", "a",
      "t", "e", "d", "]">>

\* capped putting the marker on a stream that just fits
capped_inclusive(stream, marker) ==
    IF Len(stream) >= max_output_size
    THEN SubSeq(stream, 1, max_output_size) \o marker
    ELSE stream

\* lines 243-252: cap one stream
capped(stream, marker) ==
    IF Len(stream) > max_output_size
    THEN SubSeq(stream, 1, max_output_size) \o marker
    ELSE stream

\* exit codes of the spawned process

\* what a finished process hands back: exit code and the two streams
ProcessOutcomes ==
    [returncode : {0, 1, 124, 126},
     stdout     : {Stream(n) : n \in {0, max_output_size, MaxRawOutput}},
     stderr     : {Stream(n) : n \in {0, MaxRawOutput}}]

\* lines 254-262
completed_result(cmd, outcome, elapsed) ==
    CommandResult(cmd,
                  IF outcome.returncode = 0 THEN "SUCCESS" ELSE "ERROR",
                  capped(outcome.stdout, marker_output),
                  Message("{stderr}", capped(outcome.stderr, marker_error), 0,
                          NoneReason),
                  outcome.returncode, elapsed,
                  IF outcome.returncode = 0 THEN SecurityLevel("SAFE")
                                            ELSE SecurityLevel("RESTRICTED"),
                  NoneReason)

\* lines 234-262, 274-283: the process exits before the deadline.  Without
\* capture_output the streams are None and len(None) raises TypeError, which
\* the `except Exception` turns into the error result.
Complete ==
    /\ pc = "executing"
    /\ now - spawn_time < Deadline(timeout)
    /\ \E outcome \in ProcessOutcomes :
         /\ process' = IF capture_output
                       THEN Process("exited", outcome.returncode,
                                    outcome.stdout, outcome.stderr)
                       ELSE Process("exited", outcome.returncode, <<>>, <<>>)
         /\ result' = IF capture_output
                      THEN completed_result(sanitized_command, outcome,
                                            now - start_time)
                      ELSE error_result(sanitized_command, now - start_time)
    /\ pc' = "returned"
    /\ UNCHANGED <<args, analysed, prompted, user_input,
                   sanitized_command, execution_cwd, spawned, now, spawn_time>>

\* lines 264-273
timeout_result(cmd, t, elapsed) ==
    CommandResult(cmd, "TIMEOUT", <<>>,
                  Message("Command timed out after {n} seconds", <<>>,
                          Deadline(t), NoneReason),
                  124, elapsed, SecurityLevel("BLOCKED"), NoneReason)

\* lines 234-241, 264-273: the deadline passes, subprocess.run kills the
\* process and raises TimeoutExpired
Expire ==
    /\ pc = "executing"
    /\ now - spawn_time >= Deadline(timeout)
    /\ pc' = "returned"
    /\ result' = timeout_result(sanitized_command, timeout, now - start_time)
    /\ process' = Process("killed", 0, <<>>, <<>>)
    /\ UNCHANGED <<args, analysed, prompted, user_input,
                   sanitized_command, execution_cwd, spawned, now, spawn_time>>

Next ==
    \/ Analyze
    \/ Confirm
    \/ Interrupt
    \/ Tick
    \/ Spawn
    \/ SpawnFail
    \/ Complete
    \/ Expire

Spec == Init /\ [][Next]_vars

SpecCwd == InitCwd /\ [][Next]_vars


(***************************************************************************)
(* Concurrent calls of execute_command on the global executor              *)
(*                                                                         *)
(* Each call is a frame of local variables; the executor and its analyzer  *)
(* are the shared objects, of which the calls read llm_security, api_key,  *)
(* timeout and max_output_size.  Time is not modelled here: elapsed times  *)
(* are 0 and a timeout takes the default deadline.                         *)
(***************************************************************************)

\* threads calling get_shell_executor().execute_command
Callers == 1..2

\* what the threads ask for

\* the answers of the scoring service in the concurrent runs
ConcResponses(hybrid, key) ==
    IF hybrid /\ key
    THEN {r \in Responses :
            \/ r.kind = "network_error"
            \/ /\ r.kind = "json"
               /\ r.dict.risk_score \in {Num(10), Num(60), Num(80), TextValue}
               /\ r.dict.requires_confirmation = "True"}
    ELSE ResponsesOf(hybrid, key)


ConcOutcomes ==
    {o \in ProcessOutcomes :
        o.returncode \in {0, 1} /\ Len(o.stdout) # max_output_size /\ o.stderr = <<>>}

\* the frame of a call at entry
Frame(cmd, interactive) ==
    [pc                |-> "received",
     command           |-> cmd,
     interactive_mode  |-> interactive,
     security_result   |-> NoAnalysis,
     prompted          |-> FALSE,
     user_input        |-> NoInput,
     sanitized_command |-> <<>>,
     process           |-> NoProcess,
     result            |-> NoResult]

\* the single-call variables, idle while concurrent calls are modelled
single ==
    <<pc, command, cwd, timeout, capture_output, interactive_mode, llm_security,
      api_key, security_result, requests, response_kind, prompted, user_input,
      process, sanitized_command, execution_cwd, spawned, now, start_time,
      spawn_time, result>>

InitConc ==
    /\ Entry
    /\ command = cmd_empty
    /\ cwd = NoneStr
    /\ timeout = NoneInt
    /\ capture_output = TRUE
    /\ interactive_mode = FALSE
    /\ llm_security \in BOOLEAN
    /\ api_key \in (IF llm_security THEN BOOLEAN ELSE {FALSE})
    /\ probe = NoProbe
    /\ agent = NoAgent
    /\ registry = NoRegistry
    /\ calls \in [Callers -> {Frame(cmd, interactive) :
                                cmd \in {cmd_ls, cmd_rm_rf, cmd_sleep}, interactive \in BOOLEAN}]

\* with_call keeping security_result in one attribute of the shared executor
with_call_shared_analysis(frames, i, frame) ==
    [j \in DOMAIN frames |->
        IF j = i THEN frame
        ELSE [frames[j] EXCEPT !.security_result = frame.security_result]]

\* a call assigns its own locals only
with_call(frames, i, frame) == [frames EXCEPT ![i] = frame]

\* lines 168-224 up to the input() call, in thread i
ConcAnalyze(i) ==
    /\ calls[i].pc = "received"
    /\ \E response \in ConcResponses(llm_security, api_key) :
         LET c  == calls[i]
             sr == perform_security_analysis(llm_security, c.command, api_key,
                                             response)
             frame ==
                 IF IsRaised(sr)
                 THEN [c EXCEPT !.pc = "raised", !.security_result = sr]
                 ELSE IF is_blocked(sr)
                 THEN [c EXCEPT !.pc = "returned", !.security_result = sr,
                                !.result = blocked_result(c.command, sr, 0)]
                 ELSE IF confirmation_gate(c.interactive_mode, sr)
                 THEN [c EXCEPT !.pc = "await_confirmation",
                                !.security_result = sr, !.prompted = TRUE]
                 ELSE [c EXCEPT !.pc = "ready", !.security_result = sr]
         IN calls' = with_call(calls, i, frame)
    /\ UNCHANGED <<single, probe, agent, registry>>

\* lines 201-213 in thread i
ConcConfirm(i) ==
    /\ calls[i].pc = "await_confirmation"
    /\ \E typed \in {<<"y">>, <<"n">>} :
         LET c == calls[i]
             frame ==
                 IF is_affirmative(typed)
                 THEN [c EXCEPT !.pc = "ready",
                                !.user_input = [kind |-> "text", text |-> typed]]
                 ELSE [c EXCEPT !.pc = "returned",
                                !.user_input = [kind |-> "text", text |-> typed],
                                !.result = cancelled_result(c.command, 0)]
         IN calls' = with_call(calls, i, frame)
    /\ UNCHANGED <<single, probe, agent, registry>>

\* lines 214-224 in thread i
ConcInterrupt(i) ==
    /\ calls[i].pc = "await_confirmation"
    /\ calls' = with_call(calls, i,
                  [calls[i] EXCEPT !.pc = "returned",
                                   !.user_input = [kind |-> "interrupt", text |-> <<>>],
                                   !.result = interrupted_result(calls[i].command, 0)])
    /\ UNCHANGED <<single, probe, agent, registry>>

\* lines 226-241 in thread i
ConcSpawn(i) ==
    /\ calls[i].pc = "ready"
    /\ calls' = with_call(calls, i,
                  [calls[i] EXCEPT !.pc = "executing",
                                   !.sanitized_command = sanitize_command(calls[i].command),
                                   !.process = Process("running", 0, <<>>, <<>>)])
    /\ UNCHANGED <<single, probe, agent, registry>>

\* lines 226-241 and 274-283 in thread i
ConcSpawnFail(i) ==
    /\ calls[i].pc = "ready"
    /\ calls' = with_call(calls, i,
                  [calls[i] EXCEPT !.pc = "returned",
                                   !.sanitized_command = sanitize_command(calls[i].command),
                                   !.result = error_result(sanitize_command(calls[i].command), 0)])
    /\ UNCHANGED <<single, probe, agent, registry>>

\* lines 234-262 in thread i
ConcComplete(i) ==
    /\ calls[i].pc = "executing"
    /\ \E outcome \in ConcOutcomes :
         calls' = with_call(calls, i,
                    [calls[i] EXCEPT !.pc = "returned",
                                     !.process = Process("exited", outcome.returncode,
                                                         outcome.stdout, outcome.stderr),
                                     !.result = completed_result(calls[i].sanitized_command,
                                                                 outcome, 0)])
    /\ UNCHANGED <<single, probe, agent, registry>>

\* lines 264-273 in thread i
ConcExpire(i) ==
    /\ calls[i].pc = "executing"
    /\ calls' = with_call(calls, i,
                  [calls[i] EXCEPT !.pc = "returned",
                                   !.process = Process("killed", 0, <<>>, <<>>),
                                   !.result = timeout_result(calls[i].sanitized_command,
                                                             NoneInt, Deadline(NoneInt))])
    /\ UNCHANGED <<single, probe, agent, registry>>

NextConc ==
    \/ \E i \in Callers : ConcAnalyze(i)
    \/ \E i \in Callers : ConcConfirm(i)
    \/ \E i \in Callers : ConcInterrupt(i)
    \/ \E i \in Callers : ConcSpawn(i)
    \/ \E i \in Callers : ConcSpawnFail(i)
    \/ \E i \in Callers : ConcComplete(i)
    \/ \E i \in Callers : ConcExpire(i)

SpecConc == InitConc /\ [][NextConc]_vars


(***************************************************************************)
(* Direct calls of the pure methods: the two validate_command, and         *)
(* sanitize_command, each applied once to a command string                 *)
(***************************************************************************)

\* further command strings handed to the rule engines
rule_cat_sdb == <<"c", "a", "t", " ", "a", " ", ">", "/", "d", "e", "v", "/", "s", "d", "b">>
rule_echo_fork == <<"e", "c", "h", "o", " ", ":", "(", ")", "{", " ", ":", "|", ":", "&", " ", "}", ";", ":">>
rule_ls_rm_fr == <<"l", "s", " ", ";", " ", "R", "M", " ", "-", "F", "R", " ", "x">>
rule_echo_sudo_rm == <<"e", "c", "h", "o", " ", "s", "u", "d", "o", " ", " ", "r", "m", " ", "x">>
rule_ls_mkfs == <<"l", "s", " ", ";", " ", "m", "k", "f", "s", ".", "e", "x", "t", "4", " ", "/", "d", "e", "v", "/", "s", "d", "a">>
rule_echo_dd == <<"e", "c", "h", "o", " ", "d", "d", " ", "i", "f", "=", "a", " ", "o", "f", "=", "/", "d", "e", "v", "/", "x">>

RuleCommands ==
    Commands \cup
    {rule_cat_sdb, rule_echo_fork, rule_ls_rm_fr, rule_echo_sudo_rm,
     rule_ls_mkfs, rule_echo_dd, <<"s", "e", "r", "v", "i", "c", "e", " ", "x", " ", "s", "t", "o", "p">>, <<"i", "n", "i", "t", " ", "3">>, <<"r", "c">>,
     <<"r", "c", "l", "o", "n", "e", " ", "x">>, <<"s", "e", "a", "r", "c", "h", " ", "x">>, <<"i", "n", "i", "t", "d", "b">>, <<"m", "a", "k", "e", " ", "a", "l", "l">>, <<" ", "c", "a", "t", " ", "a", " ", "&", " ">>}

\* message contents handed to the extraction

Contents ==
    {<<"{", "s10", "}">>, <<"t", "{", "s10", "}", "t">>, <<"{", "s10", "k", "{", "}", "}">>, <<"{", "s10", "}", "t", "{", "s80", "}">>,
     <<"t", "{", "s10", "}", "t", "}", "t">>, <<"t">>, <<"{", "s10">>, <<"{", "t", "}">>,
     <<"}", "t", "{">>}

\* a method that was not called yet has no return value
Unset == [type |-> "unset", v |-> ""]

InitPure ==
    /\ Entry
    /\ calls = NoCalls
    /\ agent = NoAgent
    /\ registry = NoRegistry
    /\ command = cmd_empty
    /\ cwd = NoneStr
    /\ timeout = NoneInt
    /\ capture_output = TRUE
    /\ interactive_mode = FALSE
    /\ llm_security = FALSE
    /\ api_key = FALSE
    /\ \E cmd \in RuleCommands, content \in Contents :
         probe = [applied           |-> {},
                  content           |-> content,
                  analysis          |-> Unset,
                  command           |-> cmd,
                  original          |-> cmd,
                  shell_level       |-> Unset,
                  traditional_level |-> Unset,
                  sanitized         |-> <<>>]

\* ShellSecurity().validate_command(command)
ValidateShell ==
    /\ "ShellSecurity.validate_command" \notin probe.applied
    /\ probe' = [probe EXCEPT
                   !.applied = @ \cup {"ShellSecurity.validate_command"},
                   !.shell_level = ShellSecurity_validate_command(probe.command)]
    /\ UNCHANGED <<single, calls, agent, registry>>

\* TraditionalSecurity().validate_command(command)
ValidateTraditional ==
    /\ "TraditionalSecurity.validate_command" \notin probe.applied
    /\ probe' = [probe EXCEPT
                   !.applied = @ \cup {"TraditionalSecurity.validate_command"},
                   !.traditional_level =
                       TraditionalSecurity_validate_command(probe.command)]
    /\ UNCHANGED <<single, calls, agent, registry>>

\* ShellSecurity().sanitize_command(command)
Sanitize ==
    /\ "ShellSecurity.sanitize_command" \notin probe.applied
    /\ probe' = [probe EXCEPT
                   !.applied = @ \cup {"ShellSecurity.sanitize_command"},
                   !.sanitized = sanitize_command(probe.command)]
    /\ UNCHANGED <<single, calls, agent, registry>>

\* lines 161-183 of _analyze_with_llm on the content of a 200 answer
Extract ==
    /\ "_analyze_with_llm" \notin probe.applied
    /\ probe' = [probe EXCEPT
                   !.applied = @ \cup {"_analyze_with_llm"},
                   !.analysis = analysis_of_content(probe.content)]
    /\ UNCHANGED <<single, calls, agent, registry>>

NextPure ==
    \/ Extract
    \/ ValidateShell
    \/ ValidateTraditional
    \/ Sanitize

SpecPure == InitPure /\ [][NextPure]_vars



(***************************************************************************)
(* BusinessLogicAgent.process_user_input (src/refactored_agent.py)         *)
(***************************************************************************)

\* most tool calls one model response asks for
MaxToolCalls == 2

\* line 282
max_iterations == 10

\* what a request to the model gives: a message asking for some tool calls or
\* for none, or an exception
ModelResponses ==
    {[ok |-> TRUE, tool_calls |-> k] : k \in 0..MaxToolCalls}
    \cup {[ok |-> FALSE, tool_calls |-> 0]}

InitAgent ==
    /\ Entry
    /\ command = cmd_empty
    /\ cwd = NoneStr
    /\ timeout = NoneInt
    /\ capture_output = TRUE
    /\ interactive_mode = FALSE
    /\ llm_security = FALSE
    /\ api_key = FALSE
    /\ calls = NoCalls
    /\ probe = NoProbe
    /\ registry = NoRegistry
    /\ agent = [pc              |-> "start",
                iteration_count |-> 0,
                requests        |-> 0,
                tool_calls      |-> 0,
                rounds          |-> <<>>,
                executed        |-> {},
                tool_messages   |-> <<>>,
                returned        |-> ""]

\* the agent returns a string of that kind
Return(a, kind) == [a EXCEPT !.pc = "returned", !.returned = kind]

\* the agent takes in the model's answer: continue with its tool calls,
\* return its content when it asks for none, return the error text when the
\* request raised
Received(a, response) ==
    IF ~response.ok THEN Return(a, "error")
    ELSE IF response.tool_calls = 0 THEN Return(a, "content")
    ELSE [a EXCEPT !.pc = "loop", !.tool_calls = response.tool_calls]

\* lines 261-286: the first request to the model
FirstRequest ==
    /\ agent.pc = "start"
    /\ \E response \in ModelResponses :
         agent' = Received([agent EXCEPT !.requests = @ + 1], response)
    /\ UNCHANGED <<single, calls, probe, registry>>

\* line 320: iteration_count >= max_iterations
limit_reached(count) == count >= max_iterations

\* the tool-result messages of one round, in the order of its tool calls
RECURSIVE RoundMessages(_, _)
RoundMessages(round, n) ==
    IF n = 0 THEN <<>> ELSE Append(RoundMessages(round, n - 1), <<round, n>>)

\* lines 286-322: one round of tool calls.  bad = 0: every call's arguments
\* parse, each call is executed (an exception of the tool becomes its result)
\* and one message per call is appended; bad = j: json.loads raises on the
\* arguments of call j, after the calls before it were executed, and the
\* outer handler returns the error text.
Round ==
    /\ agent.pc = "loop"
    /\ \E bad \in 0..agent.tool_calls :
         LET round == agent.iteration_count + 1
             done  == [agent EXCEPT
                         !.executed = @ \cup {<<round, i>> : i \in 1..agent.tool_calls},
                         !.tool_messages = @ \o RoundMessages(round, agent.tool_calls),
                         !.rounds = Append(@, agent.tool_calls),
                         !.iteration_count = round]
         IN agent' =
              IF ~(agent.iteration_count < max_iterations)
              THEN Return(agent, "content")
              ELSE IF bad > 0
              THEN Return([agent EXCEPT
                             !.executed = @ \cup {<<round, i>> : i \in 1..(bad - 1)}],
                          "error")
              ELSE IF limit_reached(round)
              THEN Return(done, "limit")
              ELSE [done EXCEPT !.pc = "next_request"]
    /\ UNCHANGED <<single, calls, probe, registry>>

\* lines 323-343: the request after a round
NextRequest ==
    /\ agent.pc = "next_request"
    /\ \E response \in ModelResponses :
         agent' = Received([agent EXCEPT !.requests = @ + 1], response)
    /\ UNCHANGED <<single, calls, probe, registry>>

NextAgent ==
    \/ FirstRequest
    \/ Round
    \/ NextRequest

\* the method keeps running until it returns
SpecAgent == InitAgent /\ [][NextAgent]_vars /\ WF_vars(NextAgent)



(***************************************************************************)
(* LocalMCPServiceDiscovery (src/mcp_service_discovery.py): two callers on *)
(* one registry file                                                       *)
(***************************************************************************)

\* a registry with no entry
NoEntries == [n \in {} |-> ""]

\* registry[name] = value
WithEntry(entries, name, value) ==
    [n \in DOMAIN entries \cup {name} |-> IF n = name THEN value ELSE entries[n]]

\* del registry[name]
WithoutEntry(entries, name) == [n \in DOMAIN entries \ {name} |-> entries[n]]

register_a == [method |-> "register_service", name |-> "a"]
register_b == [method |-> "register_service", name |-> "b"]
unregister_a == [method |-> "unregister_service", name |-> "a"]

\* a caller in front of call number op of its program
AtCall(program, op, returns) ==
    [program |-> program,
     op      |-> op,
     pc      |-> IF op > Len(program) THEN "done" ELSE "load",
     local   |-> NoEntries,
     returns |-> returns]

InitRegistry ==
    /\ Entry
    /\ command = cmd_empty
    /\ cwd = NoneStr
    /\ timeout = NoneInt
    /\ capture_output = TRUE
    /\ interactive_mode = FALSE
    /\ llm_security = FALSE
    /\ api_key = FALSE
    /\ calls = NoCalls
    /\ probe = NoProbe
    /\ agent = NoAgent
    \* the registry the file holds before the calls, what the first caller
    \* does and what the second does
    /\ \E entries \in {[n \in names |-> "old"] : names \in SUBSET {"a", "c"}},
          p1 \in {<<register_a>>, <<register_a, unregister_a>>},
          p2 \in {<<>>, <<register_b>>} :
         registry = [initial |-> entries,
                     file    |-> [valid |-> TRUE, entries |-> entries],
                     calls   |-> <<AtCall(p1, 1, <<>>), AtCall(p2, 1, <<>>)>>]

\* _load_registry: the file's registry, {} when the file does not parse
load_registry(file) == IF file.valid THEN file.entries ELSE NoEntries

\* the call returns value and the caller goes on to its next call
Returned(frame, value) ==
    AtCall(frame.program, frame.op + 1, Append(frame.returns, value))

\* lines 81-82 and 114-116: the call loads the registry and changes its own
\* copy; unregister_service of a name the copy lacks returns False at once
RegistryLoad(i) ==
    LET frame  == registry.calls[i]
        call   == frame.program[frame.op]
        loaded == load_registry(registry.file)
    IN /\ frame.pc = "load"
       /\ registry' = [registry EXCEPT !.calls[i] =
            IF call.method = "register_service"
            THEN [frame EXCEPT !.pc = "open", !.local = WithEntry(loaded, call.name, "new")]
            ELSE IF call.name \in DOMAIN loaded
            THEN [frame EXCEPT !.pc = "open", !.local = WithoutEntry(loaded, call.name)]
            ELSE Returned(frame, FALSE)]
       /\ UNCHANGED <<single, calls, probe, agent>>

\* line 75: open(self.registry_file, 'w') empties the file
RegistryOpen(i) ==
    LET frame == registry.calls[i]
    IN /\ frame.pc = "open"
       /\ registry' = [registry EXCEPT
                         !.file = [valid |-> FALSE, entries |-> NoEntries],
                         !.calls[i] = [frame EXCEPT !.pc = "dump"]]
       /\ UNCHANGED <<single, calls, probe, agent>>

\* line 76, then 84-85 and 118-119: json.dump writes the caller's copy from
\* the start of the file, the file is closed and the call returns True.  The
\* file then holds the copy, unless another caller wrote a longer registry
\* since this caller opened the file: its tail then follows the copy and the
\* file no longer parses.
RegistryDump(i) ==
    LET frame == registry.calls[i]
        file  == registry.file
    IN /\ frame.pc = "dump"
       /\ registry' = [registry EXCEPT
            !.file = IF Cardinality(DOMAIN frame.local) >= Cardinality(DOMAIN file.entries)
                     THEN [valid |-> TRUE, entries |-> frame.local]
                     ELSE [valid |-> FALSE, entries |-> file.entries],
            !.calls[i] = Returned(frame, TRUE)]
       /\ UNCHANGED <<single, calls, probe, agent>>

NextRegistry ==
    \E i \in 1..2 :
        \/ RegistryLoad(i)
        \/ RegistryOpen(i)
        \/ RegistryDump(i)

SpecRegistry == InitRegistry /\ [][NextRegistry]_vars


(***************************************************************************)
(* Properties                                                              *)
(***************************************************************************)

\* C1: whenever the security analysis yields the final level BLOCKED, as the
\* str of the hybrid analyzer or as SecurityLevel.BLOCKED of the classifier-
\* only fallback, the call never starts a subprocess.
C1_BlockedNeverSpawns ==
    (/\ security_result.type = "dict"
     /\ security_result.final_security_level.v = "BLOCKED")
    => (spawned = 0 /\ process = NoProcess)

\* C2: once a command whose first shell token is in the dangerous-command
\* table has been analysed, the rule engine's verdict is BLOCKED and the final
\* decision is BLOCKED, whatever the scoring service answered.
C2_DangerousFirstTokenBlocked ==
    LET command_parts == shlex_split(command)
    IN (/\ pc # "received"
        /\ command_parts.ok
        /\ command_parts.parts # <<>>
        /\ command_parts.parts[1] \in ShellSecurity_dangerous_commands)
       => (/\ ShellSecurity_validate_command(command) = SecurityLevel("BLOCKED")
           /\ security_result.type = "dict"
           /\ security_result.final_security_level.v = "BLOCKED")

\* C3: once the analysis is done, if the rule engine or the decision engine
\* says BLOCKED then the call has returned status BLOCKED with return code
\* 126, empty stdout and blocked_reason equal to the decision's reason; it has
\* neither raised nor executed the command.
C3_BlockedVerdictGivesBlockedResult ==
    (/\ pc # "received"
     /\ \/ ShellSecurity_validate_command(command) = SecurityLevel("BLOCKED")
        \/ /\ security_result.type = "dict"
           /\ security_result.final_security_level.v = "BLOCKED")
    => (/\ pc = "returned"
        /\ spawned = 0
        /\ result.status = "BLOCKED"
        /\ result.return_code = 126
        /\ result.stdout = <<>>
        /\ result.blocked_reason = security_result.decision_reason)

\* C4: the risk_score of every decision comprehensive_analysis returns lies
\* in 0..100, also when the remote answer carries a score outside that range.
C4_RiskScoreInRange ==
    (llm_security /\ security_result.type = "dict")
    => (security_result.risk_score >= 0 /\ security_result.risk_score <= 100)

\* C5: when the rule-engine verdict of the combination step is not BLOCKED,
\* the combined score is the larger of the analysis's score and the baseline
\* of the rule-engine level, and the final level is BLOCKED iff score >= 80,
\* RESTRICTED iff 60 <= score < 80, CAUTION iff 30 <= score < 60, SAFE iff
\* score < 30.
C5_CombinedScoreAndLevel ==
    (/\ llm_security
     /\ security_result.type = "dict"
     /\ security_result.traditional_analysis.v # "BLOCKED")
    => LET score == security_result.risk_score
           level == security_result.final_security_level
           given == security_result.llm_analysis.risk_score
           rule  == security_result.traditional_analysis.v
           base  == CASE rule = "SAFE" -> 10
                      [] rule = "CAUTION" -> 30
                      [] rule \in {"RESTRICTED", "DANGEROUS"} -> 70
                      [] OTHER -> 90
       IN /\ score = (IF given >= base THEN given ELSE base)
          /\ level.type = "str"
          /\ level.v \in {"BLOCKED", "RESTRICTED", "CAUTION", "SAFE"}
          /\ (level.v = "BLOCKED") <=> (score >= 80)
          /\ (level.v = "RESTRICTED") <=> (60 <= score /\ score < 80)
          /\ (level.v = "CAUTION") <=> (30 <= score /\ score < 60)
          /\ (level.v = "SAFE") <=> (score < 30)

\* a rule-engine verdict of SAFE combined with a remote score of 80
C5_Witness ==
    /\ llm_security
    /\ security_result.type = "dict"
    /\ security_result.traditional_analysis.v = "SAFE"
    /\ security_result.risk_score = 80
    /\ security_result.final_security_level = Str("BLOCKED")

\* C6: in every decision of the combination step, requires_confirmation is
\* true exactly when the analysis asks for confirmation or the combined score
\* is at least 50.
C6_RequiresConfirmation ==
    (llm_security /\ security_result.type = "dict")
    => (security_result.requires_confirmation
        <=> (\/ security_result.llm_analysis.requires_confirmation
             \/ security_result.risk_score >= 50))

\* the score alone forces confirmation
C6_Witness ==
    /\ llm_security
    /\ security_result.type = "dict"
    /\ ~security_result.llm_analysis.requires_confirmation
    /\ security_result.risk_score = 50
    /\ security_result.requires_confirmation

\* C7: in interactive mode, a command whose decision is CAUTION or RESTRICTED
\* with requires_confirmation and a score above 30 is spawned only after the
\* decision was shown and the user answered affirmatively.
C7_ConfirmationBeforeSpawn ==
    (/\ interactive_mode
     /\ security_result.type = "dict"
     /\ security_result.final_security_level.v \in {"CAUTION", "RESTRICTED"}
     /\ security_result.requires_confirmation
     /\ security_result.risk_score > 30
     /\ spawned > 0)
    => (/\ prompted
        /\ user_input.kind = "text"
        /\ user_input.text \in {<<"y">>, <<" ", "Y", "E", "S", " ">>, <<"shi">>})

\* C8: once the user has answered the prompt with anything but y / yes / shi
\* (case and surrounding blanks aside), or has interrupted it, the call has
\* returned status BLOCKED with return code 130 and a user-cancelled reason,
\* and no subprocess was started.
C8_RejectionCancels ==
    (\/ user_input.kind = "interrupt"
     \/ /\ user_input.kind = "text"
        /\ user_input.text \notin {<<"y">>, <<" ", "Y", "E", "S", " ">>, <<"shi">>})
    => (/\ pc = "returned"
        /\ result.status = "BLOCKED"
        /\ result.return_code = 130
        /\ result.stdout = <<>>
        /\ result.blocked_reason \in {Reason("User cancelled execution", ""),
                                      Reason("User interrupted", "")}
        /\ spawned = 0
        /\ process = NoProcess)

\* the user typed "yep" and the call was cancelled
C8_Witness ==
    /\ prompted
    /\ user_input = [kind |-> "text", text |-> <<"y", "e", "p">>]
    /\ pc = "returned"
    /\ result.return_code = 130

\* C9: in every returned result, BLOCKED comes with 126 or 130 and TIMEOUT
\* with 124; and when the return code is not the exit code of a finished
\* process, 126 and 130 come only with BLOCKED and 124 only with TIMEOUT.
C9_ReturnCodeConventions ==
    (pc = "returned")
    => (/\ (result.status = "BLOCKED") => (result.return_code \in {126, 130})
        /\ (result.status = "TIMEOUT") => (result.return_code = 124)
        /\ ~(process.state = "exited" /\ capture_output)
           => (/\ (result.return_code \in {126, 130}) => (result.status = "BLOCKED")
               /\ (result.return_code = 124) => (result.status = "TIMEOUT")))

\* a user-cancelled result
C9_Witness ==
    /\ pc = "returned"
    /\ result.status = "BLOCKED"
    /\ result.return_code = 130

\* C10: the deadline is the caller's timeout when one is supplied, otherwise
\* the executor default.  A process still running at the deadline is killed and
\* the call returns status TIMEOUT; every TIMEOUT result has return code 124,
\* empty stdout, a stderr message naming the deadline, and an execution_time of
\* at least the deadline.
C10_TimeoutAtDeadline ==
    LET deadline == IF timeout.some THEN timeout.v ELSE self_timeout
    IN /\ (/\ pc = "returned"
           /\ process.state # "none"
           /\ now - spawn_time >= deadline)
          => (process.state = "killed" /\ result.status = "TIMEOUT")
       /\ (pc = "returned" /\ result.status = "TIMEOUT")
          => (/\ process.state = "killed"
              /\ result.return_code = 124
              /\ result.stdout = <<>>
              /\ result.stderr.fmt = "Command timed out after {n} seconds"
              /\ result.stderr.n = deadline
              /\ result.execution_time >= deadline)

C12_NoExceptionEscapes ==
    /\ pc # "raised"
    /\ ~IsRaised(security_result)

\* C13: once an empty command, or one that cannot be split into shell tokens,
\* has been analysed, both rule engines classify it BLOCKED, the final
\* decision is BLOCKED with or without the scoring service, and the call has
\* returned a BLOCKED result without starting a subprocess.
C13_EmptyOrUnparseableBlocked ==
    LET command_parts == shlex_split(command)
    IN (/\ pc # "received"
        /\ (~command_parts.ok \/ command_parts.parts = <<>>))
       => (/\ ShellSecurity_validate_command(command) = SecurityLevel("BLOCKED")
           /\ TraditionalSecurity_validate_command(command) = Str("BLOCKED")
           /\ security_result.type = "dict"
           /\ security_result.final_security_level.v = "BLOCKED"
           /\ pc = "returned"
           /\ result.status = "BLOCKED"
           /\ spawned = 0)

\* C14: a caller-supplied working directory reaches subprocess.run only if it
\* canonicalizes to the working root or a descendant of it; for any other
\* directory (a sibling whose name starts with the root's name included) the
\* call returns an error without having started a subprocess.
C14_CwdOverrideInsideRoot ==
    LET Inside(path) ==
            \/ Resolve(path) = Resolve(working_dir)
            \/ StartsWith(Resolve(path), Resolve(working_dir) \o <<"/">>)
    IN /\ (TruthyStr(cwd) /\ ~Inside(cwd.v))
          => (/\ spawned = 0
              /\ process = NoProcess
              /\ pc = "returned" => result.status \in {"ERROR", "BLOCKED"})

\* C15: when the analyzer has no API credential, the analysis of every command
\* is the fixed fallback (level CAUTION, score 50, confidence 0.5, confirmation
\* required, category unknown, the single risk factor saying that no scoring
\* service is available) and no HTTP request has been sent.
C15_NoCredentialFallback ==
    (llm_security /\ ~api_key /\ pc # "received")
    => (/\ requests = 0
        /\ response_kind = "none"
        /\ security_result.type = "dict"
        /\ security_result.llm_analysis.type = "LLMSecurityAnalysis"
        /\ security_result.llm_analysis.security_level = "caution"
        /\ security_result.llm_analysis.risk_score = 50
        /\ security_result.llm_analysis.confidence = 5
        /\ security_result.llm_analysis.requires_confirmation
        /\ security_result.llm_analysis.command_category = "unknown"
        /\ security_result.llm_analysis.risk_factors = <<"No LLM API available">>)

\* a command analysed without a credential and then run
C15_Witness ==
    /\ llm_security
    /\ ~api_key
    /\ requests = 0
    /\ security_result.type = "dict"
    /\ security_result.llm_analysis.confidence = 5
    /\ spawned = 1

\* C16: when the request to the scoring service fails or times out, the
\* analysis is the fallback with level CAUTION, score 50, confidence 0.2 and
\* confirmation required, and the decision engine still returns a decision
\* built from it and the rule-engine verdict: score 90 and BLOCKED when the
\* rule engine blocks, else score 50 and CAUTION, confirmation required.
C16_NetworkFailureFallback ==
    (response_kind = "network_error")
    => (/\ requests = 1
        /\ security_result.type = "dict"
        /\ security_result.llm_analysis.type = "LLMSecurityAnalysis"
        /\ security_result.llm_analysis.security_level = "caution"
        /\ security_result.llm_analysis.risk_score = 50
        /\ security_result.llm_analysis.confidence = 2
        /\ security_result.llm_analysis.requires_confirmation
        /\ security_result.requires_confirmation
        /\ IF security_result.traditional_analysis.v = "BLOCKED"
           THEN /\ security_result.risk_score = 90
                /\ security_result.final_security_level = Str("BLOCKED")
           ELSE /\ security_result.risk_score = 50
                /\ security_result.final_security_level = Str("CAUTION"))

\* the request failed and the command was run on the fallback decision
C16_Witness ==
    /\ response_kind = "network_error"
    /\ security_result.type = "dict"
    /\ security_result.llm_analysis.confidence = 2
    /\ security_result.final_security_level = Str("CAUTION")
    /\ pc = "returned"
    /\ result.status = "SUCCESS"

\* C17: when the scoring service answers with a status other than 200, or
\* with 200 and a body from which no JSON object can be taken (no chat-message
\* structure, no {...} in the content, or {...} that does not parse), the
\* analysis is the parse-failure fallback: level CAUTION, score 50, confidence
\* 0.3, confirmation required, and not the confidence-0.2 fallback.
C17_ParseFailureFallback ==
    (response_kind \in {"http_error", "bad_structure", "no_json", "invalid_json"})
    => (/\ security_result.type = "dict"
        /\ security_result.llm_analysis.type = "LLMSecurityAnalysis"
        /\ security_result.llm_analysis.security_level = "caution"
        /\ security_result.llm_analysis.risk_score = 50
        /\ security_result.llm_analysis.confidence = 3
        /\ security_result.llm_analysis.requires_confirmation
        /\ security_result.llm_analysis.risk_factors
               = <<"API response parsing failed">>)

\* C18: in non-interactive mode a call whose decision is not BLOCKED is never
\* held for confirmation, also when the decision requires confirmation: it
\* goes on to subprocess.run and returns nothing but what subprocess.run gave.
\* `ls -la` without a credential is decided score 50, CAUTION, confirmation
\* required, and when ls exits 0 with captured output the result is SUCCESS.
C18_NonInteractiveProceeds ==
    /\ (/\ ~interactive_mode
        /\ security_result.type = "dict"
        /\ security_result.final_security_level.v # "BLOCKED")
       => (/\ ~prompted
           /\ user_input = NoInput
           /\ pc \in {"ready", "executing", "returned"}
           /\ pc = "returned"
              => (/\ execution_cwd # <<>>
                  /\ result.status \in {"SUCCESS", "ERROR", "TIMEOUT"}
                  /\ result.status \in {"SUCCESS", "TIMEOUT"} => spawned = 1))
    /\ (/\ ~interactive_mode
        /\ command = cmd_ls
        /\ llm_security
        /\ ~api_key
        /\ pc # "received")
       => (/\ security_result.type = "dict"
           /\ security_result.risk_score = 50
           /\ security_result.final_security_level = Str("CAUTION")
           /\ security_result.requires_confirmation
           /\ (/\ pc = "returned"
               /\ process.state = "exited"
               /\ process.returncode = 0
               /\ capture_output)
              => result.status = "SUCCESS")

\* `ls -la` without a credential, not interactive, run to SUCCESS although its
\* decision requires confirmation
C18_Witness ==
    /\ ~interactive_mode
    /\ command = cmd_ls
    /\ llm_security
    /\ ~api_key
    /\ security_result.type = "dict"
    /\ security_result.requires_confirmation
    /\ pc = "returned"
    /\ spawned = 1
    /\ result.status = "SUCCESS"

\* C20: when several threads call execute_command on the shared executor, in
\* every interleaving each call's analysis is one its own command can get
\* under the shared configuration, it is prompted only on its own decision and
\* mode, and its result carries its own command and its own decision's reason.
C20_CallsAreIsolated ==
    \A i \in DOMAIN calls :
        LET c == calls[i]
            own == {perform_security_analysis(llm_security, c.command, api_key, r) :
                        r \in ConcResponses(llm_security, api_key)}
        IN /\ c.pc = "received"
              => (c.security_result = NoAnalysis /\ c.result = NoResult)
           /\ c.pc # "received" => c.security_result \in own
           /\ c.prompted
              => (/\ c.interactive_mode
                  /\ c.security_result.final_security_level.v = "RESTRICTED")
           /\ c.process.state # "none"
              => (/\ c.sanitized_command = sanitize_command(c.command)
                  /\ c.security_result.final_security_level # Str("BLOCKED"))
           /\ c.pc = "returned"
              => (/\ c.result.command \in {c.command, sanitize_command(c.command)}
                  /\ (c.result.return_code = 126 /\ c.process.state = "none")
                     => c.result.blocked_reason = c.security_result.decision_reason
                  /\ (c.security_result.final_security_level = Str("BLOCKED"))
                     => (c.result.status = "BLOCKED" /\ c.result.return_code = 126))

\* two threads, one asking for rm -rf and blocked, the other asking for ls and
\* served, both finished
C20_Witness ==
    /\ DOMAIN calls = Callers
    /\ calls[1].command = cmd_rm_rf
    /\ calls[1].pc = "returned"
    /\ calls[1].result.status = "BLOCKED"
    /\ calls[1].result.return_code = 126
    /\ calls[2].command = cmd_ls
    /\ calls[2].pc = "returned"
    /\ calls[2].result.status = "SUCCESS"

\* C21: every run follows RECEIVED -> ANALYZED -> {BLOCKED | AWAIT_CONFIRMATION
\* -> (CANCELLED | CONFIRMED)} -> EXECUTING -> {COMPLETED | TIMED_OUT | FAILED}:
\* a subprocess exists only after an analysis whose decision is not BLOCKED
\* and, if the user was asked, after an affirmative answer; at most one
\* subprocess is started; and a run that has left the analysis is on its way to
\* or in exactly one terminal state, which is a returned result.
C21_StateMachine ==
    LET affirmative == {<<"y">>, <<" ", "Y", "E", "S", " ">>, <<"shi">>}
        BLOCKED    == /\ result.status = "BLOCKED" /\ result.return_code = 126
                      /\ spawned = 0 /\ ~prompted
        CANCELLED  == /\ result.status = "BLOCKED" /\ result.return_code = 130
                      /\ spawned = 0 /\ prompted
        COMPLETED  == /\ result.status \in {"SUCCESS", "ERROR"}
                      /\ process.state = "exited" /\ spawned = 1
        TIMED_OUT  == /\ result.status = "TIMEOUT"
                      /\ process.state = "killed" /\ spawned = 1
        FAILED     == /\ result.status = "ERROR"
                      /\ process.state = "none" /\ spawned = 0
    IN /\ pc \in {"received", "await_confirmation", "ready", "executing", "returned"}
       /\ spawned <= 1
       /\ pc = "received" => (security_result = NoAnalysis /\ spawned = 0)
       /\ pc \in {"ready", "executing"} \/ spawned > 0
          => (/\ security_result.type = "dict"
              /\ security_result.final_security_level.v # "BLOCKED"
              /\ prompted => (user_input.kind = "text" /\ user_input.text \in affirmative))
       /\ pc = "await_confirmation"
          => (security_result.type = "dict" /\ prompted /\ spawned = 0)
       /\ pc = "returned" => (BLOCKED \/ CANCELLED \/ COMPLETED \/ TIMED_OUT \/ FAILED)

\* C22: ShellSecurity.validate_command returns BLOCKED for every command
\* whose first token is whitelisted and whose raw string matches one of the
\* seven danger regexes, upper or lower case: among them `echo a | RM b`,
\* `cat a >/dev/sdb`, `echo :(){ :|:& };:`, `ls ; RM -FR x`, `echo sudo  rm x`,
\* `ls ; mkfs.ext4 /dev/sda` and `echo dd if=a of=/dev/x`.
C22_DangerChecksBeforeWhitelist ==
    ("ShellSecurity.validate_command" \in probe.applied)
    => LET command_parts == shlex_split(probe.command)
       IN /\ (/\ command_parts.ok
               /\ command_parts.parts # <<>>
               /\ command_parts.parts[1] \in allowed_commands
               /\ MatchesDangerousPattern(probe.command))
              => probe.shell_level = SecurityLevel("BLOCKED")
          /\ probe.command \in {cmd_pipe_RM, cmd_to_disk, rule_cat_sdb,
                                 rule_echo_fork, rule_ls_rm_fr, rule_echo_sudo_rm,
                                 rule_ls_mkfs, rule_echo_dd}
              => (/\ command_parts.ok
                  /\ command_parts.parts[1] \in allowed_commands
                  /\ probe.shell_level = SecurityLevel("BLOCKED"))

\* `ls ; RM -FR x`, first token ls, was validated and blocked
C22_Witness ==
    /\ "ShellSecurity.validate_command" \in probe.applied
    /\ probe.command = rule_ls_rm_fr
    /\ shlex_split(probe.command).parts[1] = <<"l", "s">>
    /\ probe.shell_level = SecurityLevel("BLOCKED")

\* C23: for a command that passes the danger table and the danger regexes,
\* ShellSecurity.validate_command returns SAFE iff the first token is in the
\* whitelist, otherwise RESTRICTED iff the first token is systemctl, service,
\* init or rc, otherwise MODERATE; a first token that only contains one of
\* those names gets MODERATE.
C23_WhitelistThenServiceNames ==
    ("ShellSecurity.validate_command" \in probe.applied)
    => LET command_parts == shlex_split(probe.command)
           service_names == {<<"s", "y", "s", "t", "e", "m", "c", "t", "l">>,
                             <<"s", "e", "r", "v", "i", "c", "e">>,
                             <<"i", "n", "i", "t">>, <<"r", "c">>}
       IN (/\ command_parts.ok
           /\ command_parts.parts # <<>>
           /\ command_parts.parts[1] \notin ShellSecurity_dangerous_commands
           /\ ~MatchesDangerousPattern(probe.command))
          => probe.shell_level =
                (IF command_parts.parts[1] \in allowed_commands
                 THEN SecurityLevel("SAFE")
                 ELSE IF command_parts.parts[1] \in service_names
                 THEN SecurityLevel("RESTRICTED")
                 ELSE SecurityLevel("MODERATE"))

\* C24: sanitize_command returns its argument with a backslash inserted before
\* every &, ;, backquote, $, (, ) and <, with | and > and every other
\* character as they were, and with leading and trailing whitespace removed;
\* the string the caller passed is still the one it passed.
C24_SanitizeEscapes ==
    ("ShellSecurity.sanitize_command" \in probe.applied)
    => LET RECURSIVE Escaped(_)
           Escaped(s) ==
               IF s = <<>> THEN <<>>
               ELSE (IF Head(s) \in {"&", ";", Backquote, "$", "(", ")", "<"}
                     THEN <<"\\", Head(s)>>
                     ELSE <<Head(s)>>) \o Escaped(Tail(s))
           e   == Escaped(probe.original)
           out == probe.sanitized
       IN /\ probe.command = probe.original
          /\ out # <<>> => (/\ out[1] \notin WhitespaceChars
                            /\ out[Len(out)] \notin WhitespaceChars)
          /\ \E i \in 1..(Len(e) + 1) :
                /\ i + Len(out) - 1 <= Len(e)
                /\ out = SubSeq(e, i, i + Len(out) - 1)
                /\ \A k \in 1..Len(e) :
                      (k < i \/ k > i + Len(out) - 1) => e[k] \in WhitespaceChars

\* the command with every metacharacter and blanks around it, sanitized
C24_Witness ==
    /\ "ShellSecurity.sanitize_command" \in probe.applied
    /\ probe.command = cmd_meta
    /\ Len(probe.sanitized) = Len(cmd_meta) - 2 + 8
    /\ Contains(<<"|", "f", ">", "g">>, probe.sanitized)
    /\ Contains(<<"\\", "<">>, probe.sanitized)

\* C25: whenever the spawned process has run to completion before the
\* deadline, with or without capture_output, the returned status is SUCCESS if
\* the process's return code is 0 and ERROR otherwise, and return_code is the
\* process's return code.
C25_CompletedStatus ==
    (pc = "returned" /\ process.state = "exited")
    => (/\ result.status = (IF process.returncode = 0 THEN "SUCCESS" ELSE "ERROR")
        /\ result.return_code = process.returncode)

\* C26: when the content of a successful answer holds a balanced {...} that
\* is a JSON object, the analysis is that of the first such balanced substring,
\* also when more text with braces (a second object, a stray brace) follows.
C26_FirstBalancedObject ==
    ("_analyze_with_llm" \in probe.applied)
    => LET content == probe.content
           RECURSIVE BalancedEnd(_, _)
           BalancedEnd(p, depth) ==
               IF p > Len(content) THEN 0
               ELSE IF content[p] = "{" THEN BalancedEnd(p + 1, depth + 1)
               ELSE IF content[p] = "}"
               THEN (IF depth = 1 THEN p ELSE BalancedEnd(p + 1, depth - 1))
               ELSE BalancedEnd(p + 1, depth)
           opens == {i \in 1..Len(content) : content[i] = "{"}
           first == CHOOSE i \in opens : \A o \in opens : i <= o
           balanced == SubSeq(content, first, BalancedEnd(first, 0))
       IN (/\ opens # {}
           /\ BalancedEnd(first, 0) # 0
           /\ ParseObject(balanced, 1) = Len(balanced) + 1)
          => (/\ probe.analysis.risk_factors # <<"API response parsing failed">>
              /\ probe.analysis.risk_score = TopScore(balanced, 1, 0, MissingKey))

\* C27: for every command, TraditionalSecurity.validate_command returns
\* BLOCKED if and only if ShellSecurity.validate_command returns BLOCKED.
C27_RuleEnginesAgree ==
    ({"ShellSecurity.validate_command", "TraditionalSecurity.validate_command"}
        \subseteq probe.applied)
    => ((probe.traditional_level = Str("BLOCKED"))
        <=> (probe.shell_level = SecurityLevel("BLOCKED")))

\* C28: in the classifier-only configuration the decision's risk_score is 50
\* exactly when the rule engine's level is BLOCKED and 20 otherwise,
\* requires_confirmation is false exactly when that level is SAFE, a BLOCKED
\* level makes the call return the BLOCKED result without a subprocess, and in
\* interactive mode a MODERATE or RESTRICTED level with requires_confirmation
\* and a score above 30 is held for the user's answer.
C28_ClassifierOnlyDecision ==
    (~llm_security /\ security_result.type = "dict")
    => LET level == security_result.final_security_level.v
       IN /\ level = ShellSecurity_validate_command(command).v
          /\ security_result.risk_score = (IF level = "BLOCKED" THEN 50 ELSE 20)
          /\ security_result.requires_confirmation <=> (level # "SAFE")
          /\ level = "BLOCKED"
             => (/\ pc = "returned"
                 /\ result.status = "BLOCKED"
                 /\ result.return_code = 126
                 /\ spawned = 0)
          /\ (/\ interactive_mode
              /\ level \in {"MODERATE", "RESTRICTED"}
              /\ security_result.requires_confirmation
              /\ security_result.risk_score > 30)
             => prompted

\* C29: process_user_input always returns a string, after at most 10 rounds
\* of tool calls and at most 10 requests to the model, whatever the model
\* answers; and the conversation history holds exactly one tool-result message
\* for every tool call it has executed.
C29_AgentLoopTerminates ==
    /\ [](agent.pc # "none"
           => (/\ agent.iteration_count <= 10
               /\ agent.requests <= 10
               /\ Len(agent.rounds) <= 10
               /\ \A call \in agent.executed :
                     Cardinality({k \in 1..Len(agent.tool_messages) :
                                     agent.tool_messages[k] = call}) = 1
               /\ agent.pc = "returned"
                  => agent.returned \in {"content", "limit", "error"}))
    /\ <>(agent.pc = "returned")

\* C30: once register_service of "a" and register_service of "b" have both
\* returned True, the registry file holds both services, however the two
\* calls' steps interleave; and register_service followed by
\* unregister_service of "a", with no other caller, leaves every other entry
\* of the file as it was.
C30_NoLostUpdate ==
    (/\ registry.calls # <<>>
     /\ \A i \in 1..2 : registry.calls[i].pc = "done")
    => /\ (/\ registry.calls[1].program = <<register_a>>
           /\ registry.calls[2].program = <<register_b>>
           /\ registry.calls[1].returns = <<TRUE>>
           /\ registry.calls[2].returns = <<TRUE>>)
          => /\ "a" \in DOMAIN load_registry(registry.file)
             /\ "b" \in DOMAIN load_registry(registry.file)
       /\ (/\ registry.calls[1].program = <<register_a, unregister_a>>
           /\ registry.calls[2].program = <<>>)
          => WithoutEntry(load_registry(registry.file), "a")
                = WithoutEntry(registry.initial, "a")

====
